---- MODULE Spec2Model ----
(***************************************************************************)
(* A model of the single-table record store of src/main.c: the command     *)
(* loop (main), the statement parser (prepare_statement, prepare_insert),  *)
(* the table (execute_insert, execute_select, row_slot, db_open,           *)
(* db_close), the pager (pager_open, get_page, pager_flush) and the row    *)
(* codec (serialize_row, deserialize_row).                                 *)
(*                                                                         *)
(* Memory and the backing file are modelled byte by byte.  A byte is a     *)
(* number in 0..255; text is a sequence of character codes.  The sizes of  *)
(* the source (32 and 255 byte columns, 4096 byte pages, 100 pages) are    *)
(* scaled down; every size derived from them is computed as the source     *)
(* computes it.                                                            *)
(***************************************************************************)
EXTENDS Integers, Sequences, FiniteSets, TLC

(***************************************************************************)
(* Sizes.  The source has COLUMN_USERNAME_SIZE 32, COLUMN_EMAIL_SIZE 255,  *)
(* PAGE_SIZE 4096 and TABLE_MAX_PAGES 100; the model keeps the names and   *)
(* scales the values.  As in the source PAGE_SIZE is no multiple of        *)
(* ROW_SIZE.                                                               *)
(***************************************************************************)
COLUMN_USERNAME_SIZE == 1

COLUMN_EMAIL_SIZE == 1

PAGE_SIZE == 22

TABLE_MAX_PAGES == 2

\* How many times the program is started on the same file.
MaxSessions == 2

\* The same, where the lines typed include the malformed ones.
MaxRuns == 1

\* sizeof(uint32_t), the width of Row.id
ID_SIZE == 4

USERNAME_SIZE == COLUMN_USERNAME_SIZE + 1

EMAIL_SIZE == COLUMN_EMAIL_SIZE + 1

ID_OFFSET == 0

USERNAME_OFFSET == ID_OFFSET + ID_SIZE

EMAIL_OFFSET == USERNAME_OFFSET + USERNAME_SIZE

ROW_SIZE == ID_SIZE + USERNAME_SIZE + EMAIL_SIZE

ROWS_PER_PAGE == PAGE_SIZE \div ROW_SIZE

TABLE_MAX_ROWS == ROWS_PER_PAGE * TABLE_MAX_PAGES

(***************************************************************************)
(* Bytes and text.                                                         *)
(***************************************************************************)
\* The code of a character.
Ord(c) ==
  CASE c = " " -> 32 [] c = "-" -> 45 [] c = "." -> 46
    [] c = "0" -> 48 [] c = "1" -> 49 [] c = "2" -> 50
    [] c = "a" -> 97 [] c = "b" -> 98 [] c = "c" -> 99
    [] c = "e" -> 101 [] c = "i" -> 105 [] c = "l" -> 108
    [] c = "n" -> 110 [] c = "r" -> 114 [] c = "s" -> 115
    [] c = "t" -> 116 [] c = "x" -> 120 [] c = "y" -> 121

RECURSIVE Str(_)
\* A string literal, written as a tuple of characters, as its bytes.
Str(cs) == IF cs = <<>> THEN <<>> ELSE <<Ord(Head(cs))>> \o Str(Tail(cs))

RECURSIVE Rep(_, _)
\* n copies of the byte b
Rep(b, n) == IF n = 0 THEN <<>> ELSE <<b>> \o Rep(b, n - 1)

IsDigit(b) == b >= Ord("0") /\ b <= Ord("0") + 9

\* What malloc may hand out: memory that happens to be zero, or stale bytes.
HeapFill == {0, 170}

\* malloc(n) for each content
Fresh(n) == [fill \in HeapFill |-> Rep(fill, n)]

(***************************************************************************)
(* The C library functions the parser uses.                                *)
(***************************************************************************)
\* strlen of a text held as a byte sequence without its terminator
strlen(s) == Len(s)

\* strcmp(a, b) == 0
strcmp0(a, b) == a = b

\* strncmp(a, b, n) == 0, for b of at least n bytes without a terminator
strncmp0(a, b, n) ==
  /\ Len(a) >= n
  /\ \A i \in 1..n : a[i] = b[i]

RECURSIVE SkipDelims(_)
\* strtok's first step: drop the leading delimiters
SkipDelims(s) ==
  IF s # <<>> /\ Head(s) = Ord(" ") THEN SkipDelims(Tail(s)) ELSE s

RECURSIVE TakeToken(_)
\* the bytes before the next delimiter
TakeToken(s) ==
  IF s = <<>> \/ Head(s) = Ord(" ") THEN <<>>
  ELSE <<Head(s)>> \o TakeToken(Tail(s))

RECURSIVE strtok(_)
\* The tokens successive strtok(.., " ") calls return, in order; the call
\* after the last one returns NULL.
strtok(s) ==
  LET t == SkipDelims(s)
      tok == TakeToken(t)
  IN IF t = <<>> THEN <<>>
     ELSE <<tok>> \o strtok(SubSeq(t, Len(tok) + 1, Len(t)))

RECURSIVE Digits(_, _)
\* the value of the leading decimal digits of s, after acc
Digits(s, acc) ==
  IF s # <<>> /\ IsDigit(Head(s))
  THEN Digits(Tail(s), acc * 10 + (Head(s) - Ord("0")))
  ELSE acc

\* atoi: optional blanks, an optional sign, then digits up to the first
\* byte that is no digit; 0 when there is no digit
atoi(s) ==
  LET t == SkipDelims(s)
  IN IF t # <<>> /\ Head(t) = Ord("-") THEN 0 - Digits(Tail(t), 0)
     ELSE Digits(t, 0)

RECURSIVE LittleEndian(_, _)
\* The n low bytes of v, least significant first (\div rounds down, so a
\* negative int gives its two's complement)
LittleEndian(v, n) ==
  IF n = 0 THEN <<>> ELSE <<v % 256>> \o LittleEndian(v \div 256, n - 1)

\* The bytes of (uint32_t) v
U32Bytes(v) == LittleEndian(v, ID_SIZE)

\* strcpy(buf + off, s): the bytes of s and its terminator.  A byte that
\* falls past the last field lands in the padding that ends struct Row and
\* is not part of any field.
strcpy(buf, off, s) ==
  LET n == IF Len(s) + 1 < Len(buf) - off THEN Len(s) + 1 ELSE Len(buf) - off
      bytes == SubSeq(s \o <<0>>, 1, n)
  IN SubSeq(buf, 1, off) \o bytes \o SubSeq(buf, off + Len(bytes) + 1, Len(buf))

\* memcpy(dst + off, src, Len(src)), for a src that ends within dst
memcpy(dst, off, src) ==
  SubSeq(dst, 1, off) \o src \o SubSeq(dst, off + Len(src) + 1, Len(dst))

(***************************************************************************)
(* The statement parser.                                                   *)
(***************************************************************************)
\* prepare_insert: the PrepareResult and the fields of *row_to_insert, a
\* fresh malloc(sizeof(Row)) whose bytes are fill until they are assigned.
prepare_insert(buffer, fill) ==
  LET toks == strtok(buffer)
      fresh == Fresh(ROW_SIZE)[fill]
      NoTok(k) == Len(toks) < k
      id_string == toks[2]
      username == toks[3]
      email == toks[4]
      id == atoi(id_string)
  IN IF NoTok(2) \/ NoTok(3) \/ NoTok(4)
       THEN [result |-> "PREPARE_STRING_NOT_RIGHT", row |-> fresh]
     ELSE IF id = 0
       THEN [result |-> "PREPARE_NOT_ID", row |-> fresh]
     ELSE IF strlen(username) > USERNAME_SIZE
       THEN [result |-> "PREPARE_STRING_TOO_LONG", row |-> fresh]
     ELSE IF strlen(email) > EMAIL_SIZE
       THEN [result |-> "PREPARE_STRING_TOO_LONG", row |-> fresh]
     ELSE [result |-> "PREPARE_SUCCESS",
           row |-> strcpy(strcpy(memcpy(fresh, ID_OFFSET, U32Bytes(id)),
                                 USERNAME_OFFSET, username),
                          EMAIL_OFFSET, email)]

\* prepare_statement: the PrepareResult, and the statement it leaves behind
\* (type "NONE" and row <<>> where the code assigns neither)
prepare_statement(buffer, fill) ==
  IF strncmp0(buffer, Str(<<"i", "n", "s", "e", "r", "t">>), 6)
    THEN LET p == prepare_insert(buffer, fill)
         IN [result |-> p.result, type |-> "STATEMENT_INSERT", row |-> p.row]
  ELSE IF strcmp0(buffer, Str(<<"s", "e", "l", "e", "c", "t">>))
    THEN [result |-> "PREPARE_SUCCESS", type |-> "STATEMENT_SELECT", row |-> <<>>]
  ELSE [result |-> "PREPARE_UNRECOGNIZED_STATEMENT", type |-> "NONE", row |-> <<>>]

\* main's switch over the PrepareResult: the cases that end in `continue`.
\* Every other value leaves the switch and reaches execute_statement.
PrepareContinues(result) ==
  result \in {"PREPARE_NEGATIVE_ID", "PREPARE_STRING_TOO_LONG",
              "PREPARE_SYNTAX_ERROR", "PREPARE_UNRECOGNIZED_STATEMENT"}

(***************************************************************************)
(* The lines the user may type.                                            *)
(***************************************************************************)
Cat3(a, b, c) == a \o <<Ord(" ")>> \o b \o <<Ord(" ")>> \o c

\* "insert <id> <username> <email>"
InsertLine(id, username, email) ==
  Str(<<"i", "n", "s", "e", "r", "t">>) \o <<Ord(" ")>> \o Cat3(id, username, email)

\* Lines that main answers without the table, or with a select or a
\* well-formed insert whose texts fill their columns.
CoreLines ==
  { Str(<<".", "e", "x", "i", "t">>),
    Str(<<".", "x">>),
    Str(<<"s", "e", "l", "e", "c", "t">>),
    Str(<<"s", "e", "l">>),
    InsertLine(Str(<<"1">>), Rep(Ord("a"), COLUMN_USERNAME_SIZE),
               Rep(Ord("x"), COLUMN_EMAIL_SIZE)),
    InsertLine(Str(<<"2">>), Rep(Ord("b"), COLUMN_USERNAME_SIZE),
               Rep(Ord("y"), COLUMN_EMAIL_SIZE)) }

\* Lines with an insert that lacks arguments, has an id that is no number,
\* or has a text of one or two bytes more than its column.
BadLines ==
  { Str(<<"i", "n", "s", "e", "r", "t">>),
    InsertLine(Str(<<"x">>), Str(<<"a">>), Str(<<"x">>)),
    InsertLine(Str(<<"1">>), Rep(Ord("c"), COLUMN_USERNAME_SIZE + 1),
               Rep(Ord("e"), COLUMN_EMAIL_SIZE + 1)),
    InsertLine(Str(<<"1">>), Rep(Ord("a"), COLUMN_USERNAME_SIZE + 2), Str(<<"x">>)),
    InsertLine(Str(<<"1">>), Str(<<"a">>), Rep(Ord("x"), COLUMN_EMAIL_SIZE + 2)) }

Lines == CoreLines \cup BadLines

\* prepare_statement of every line, for every content of the fresh row
Prepared ==
  [buffer \in Lines, fill \in HeapFill |-> prepare_statement(buffer, fill)]

(***************************************************************************)
(* The state.                                                              *)
(***************************************************************************)
VARIABLES
  file,         \* the bytes of the backing file
  status,       \* "idle": no process; "running": main's loop awaits a line
  file_length,  \* pager->file_length
  pages,        \* pager->pages, and the heap words that follow the array
  num_rows,     \* table->num_rows
  sessions,     \* how many times the program was started
  exit_kind,    \* how the last process ended
  op,           \* what the last step did
  line,         \* the line it read
  prep,         \* the last line's PrepareResult
  executed,     \* whether execute_statement was called for the last line
  result,       \* the EXECUTE_RESULT it returned
  stmt_row,     \* the row handed to execute_insert
  requested,    \* the page numbers passed to get_page by the last step
  output,       \* the rows print_row printed in the last step
  flushed,      \* the <<page, size>> passed to pager_flush by the last step
  cur,          \* the rows inserted in this session, with their row numbers
  committed,    \* the rows inserted in the sessions that db_close ended
  batches       \* how many of those sessions inserted a row

vars == <<file, status, file_length, pages, num_rows, sessions, exit_kind, op,
          line, prep, executed, result, stmt_row, requested, output, flushed,
          cur, committed, batches>>

(***************************************************************************)
(* Pointers.  A page pointer is NULL, a resident PAGE_SIZE buffer, or      *)
(* what a read past pager->pages finds: the words after the array belong   *)
(* to the heap, no code initializes them, and what they hold is settled    *)
(* when they are first read (Unread until then): zero, or a value that     *)
(* points at no buffer (Wild).                                             *)
(***************************************************************************)
NULL == <<>>

Wild == <<-1>>

Unread == <<-2>>

IsPage(p) == Len(p) = PAGE_SIZE

\* The largest file db_close can leave, in rows, and the last word after
\* pager->pages a row number derived from such a file can reach.
MaxFileRows == ((TABLE_MAX_PAGES + 1) * PAGE_SIZE) \div ROW_SIZE

MaxWord == MaxFileRows \div ROWS_PER_PAGE

Min(a, b) == IF a < b THEN a ELSE b

Max(a, b) == IF a > b THEN a ELSE b

(***************************************************************************)
(* The pager.                                                              *)
(***************************************************************************)
\* pager_open's loop: every entry of the array is NULL; the words after it
\* are not touched.
PagesAtOpen == [i \in 0..MaxWord |-> IF i < TABLE_MAX_PAGES THEN NULL ELSE Unread]

\* What the words after pager->pages may hold.
HeapWords == [TABLE_MAX_PAGES..MaxWord -> {NULL, Wild}]

\* The contents of those words that a step has to consider, when last_row
\* is the largest row number whose page it may look up: only the page of a
\* row number of TABLE_MAX_ROWS or more is a word after the array, and a
\* step that reads none of the words does the same whatever they hold.
HeapChoices(last_row) ==
  IF last_row >= TABLE_MAX_ROWS THEN HeapWords
  ELSE {[i \in TABLE_MAX_PAGES..MaxWord |-> NULL]}

\* malloc(PAGE_SIZE) for each content
FreshPage == Fresh(PAGE_SIZE)

\* The value a read of pgs[i] finds.
Resolve(pgs, i, heap) == IF pgs[i] = Unread THEN heap[i] ELSE pgs[i]

\* lseek(fd, off, SEEK_SET); read(fd, .., n): the bytes read, fewer than n
\* at the end of the file
ReadAt(f, off, n) == SubSeq(f, off + 1, Min(Len(f), off + n))

\* lseek(fd, off, SEEK_SET); write(fd, bytes, Len(bytes)): the file after
\* it.  A write after the end leaves a hole that reads as zeros.
WriteAt(f, off, bytes) ==
  LET padded == IF Len(f) < off THEN f \o Rep(0, off - Len(f)) ELSE f
  IN SubSeq(padded, 1, off) \o bytes
       \o SubSeq(padded, off + Len(bytes) + 1, Len(padded))

\* get_page that allocates and loads the page at every request
get_page_reload(pgs, page_num, fill, heap) ==
  IF page_num > TABLE_MAX_PAGES
    THEN [exit |-> TRUE, pages |-> pgs, ptr |-> NULL]
  ELSE LET page == FreshPage[fill]
           num_pages == (file_length + PAGE_SIZE - 1) \div PAGE_SIZE
           loaded == IF page_num <= num_pages
                       THEN memcpy(page, 0,
                              ReadAt(file, page_num * PAGE_SIZE, PAGE_SIZE))
                     ELSE page
       IN [exit |-> FALSE,
           pages |-> [pgs EXCEPT ![page_num] = loaded],
           ptr |-> loaded]

\* get_page: whether it exits, the pages after it and the pointer returned.
\* fill is what malloc's memory holds.
get_page(pgs, page_num, fill, heap) ==
  IF page_num > TABLE_MAX_PAGES
    THEN [exit |-> TRUE, pages |-> pgs, ptr |-> NULL]
  ELSE LET found == Resolve(pgs, page_num, heap)
       IN IF found = NULL
            THEN LET page == FreshPage[fill]
                     num_pages == (file_length + PAGE_SIZE - 1) \div PAGE_SIZE
                     loaded == IF page_num <= num_pages
                                 THEN memcpy(page, 0,
                                        ReadAt(file, page_num * PAGE_SIZE, PAGE_SIZE))
                               ELSE page
                 IN [exit |-> FALSE,
                     pages |-> [pgs EXCEPT ![page_num] = loaded],
                     ptr |-> loaded]
          ELSE [exit |-> FALSE,
                pages |-> [pgs EXCEPT ![page_num] = found],
                ptr |-> found]

\* pager_flush of a page whose entry was read as p: whether it exits, and
\* the file after it.  write() from an address that is no buffer fails.
pager_flush(p, f, page_num, size) ==
  IF p = NULL THEN [exit |-> TRUE, file |-> f]
  ELSE IF ~IsPage(p) THEN [exit |-> TRUE, file |-> f]
  ELSE [exit |-> FALSE, file |-> WriteAt(f, page_num * PAGE_SIZE, SubSeq(p, 1, size))]

(***************************************************************************)
(* The row codec.                                                          *)
(***************************************************************************)
Field(bytes, off, size) == SubSeq(bytes, off + 1, off + size)

\* serialize_row with the email copied one byte early, over the end of the
\* username
serialize_row_overlap(source, page, byte_offset) ==
  LET d1 == memcpy(page, byte_offset + ID_OFFSET, Field(source, ID_OFFSET, ID_SIZE))
      d2 == memcpy(d1, byte_offset + USERNAME_OFFSET,
                   Field(source, USERNAME_OFFSET, USERNAME_SIZE))
  IN memcpy(d2, byte_offset + EMAIL_OFFSET - 1, Field(source, EMAIL_OFFSET, EMAIL_SIZE))

\* serialize_row(source, page + byte_offset): the page after it
serialize_row(source, page, byte_offset) ==
  LET d1 == memcpy(page, byte_offset + ID_OFFSET, Field(source, ID_OFFSET, ID_SIZE))
      d2 == memcpy(d1, byte_offset + USERNAME_OFFSET,
                   Field(source, USERNAME_OFFSET, USERNAME_SIZE))
  IN memcpy(d2, byte_offset + EMAIL_OFFSET, Field(source, EMAIL_OFFSET, EMAIL_SIZE))

\* execute_select's local Row before it is assigned
LocalRow == Rep(0, ROW_SIZE)

\* deserialize_row(&row, page + byte_offset): the row
deserialize_row(page, byte_offset) ==
  LET r0 == LocalRow
      r1 == memcpy(r0, ID_OFFSET, Field(page, byte_offset + ID_OFFSET, ID_SIZE))
      r2 == memcpy(r1, USERNAME_OFFSET,
                   Field(page, byte_offset + USERNAME_OFFSET, USERNAME_SIZE))
  IN memcpy(r2, EMAIL_OFFSET, Field(page, byte_offset + EMAIL_OFFSET, EMAIL_SIZE))

(***************************************************************************)
(* The table.                                                              *)
(***************************************************************************)
\* row_slot with the row's place in its page taken from the quotient
row_slot_quotient(pgs, row_num, fill, heap) ==
  LET page_num == row_num \div ROWS_PER_PAGE
      row_offset == row_num \div ROWS_PER_PAGE
  IN [got |-> get_page(pgs, page_num, fill, heap),
      page_num |-> page_num,
      byte_offset |-> row_offset * ROW_SIZE]

\* row_slot: get_page's outcome and the byte offset of the row in the page
row_slot(pgs, row_num, fill, heap) ==
  LET page_num == row_num \div ROWS_PER_PAGE
      row_offset == row_num % ROWS_PER_PAGE
  IN [got |-> get_page(pgs, page_num, fill, heap),
      page_num |-> page_num,
      byte_offset |-> row_offset * ROW_SIZE]

\* execute_insert with a table that is full only above TABLE_MAX_ROWS
execute_insert_above(row, fill, heap) ==
  IF num_rows > TABLE_MAX_ROWS
    THEN [result |-> "EXECUTE_TABLE_FULL", pages |-> pages, num_rows |-> num_rows,
          requested |-> <<>>]
  ELSE LET slot == row_slot(pages, num_rows, fill, heap)
       IN [result |-> "EXECUTE_SUCCESS",
           pages |-> [slot.got.pages EXCEPT ![slot.page_num] =
                        serialize_row(row, slot.got.ptr, slot.byte_offset)],
           num_rows |-> num_rows + 1,
           requested |-> <<slot.page_num>>]

\* execute_insert that writes the slot of the last row, not the next one
execute_insert_last(row, fill, heap) ==
  IF num_rows >= TABLE_MAX_ROWS
    THEN [result |-> "EXECUTE_TABLE_FULL", pages |-> pages, num_rows |-> num_rows,
          requested |-> <<>>]
  ELSE LET slot == row_slot(pages, Max(num_rows - 1, 0), fill, heap)
       IN [result |-> "EXECUTE_SUCCESS",
           pages |-> [slot.got.pages EXCEPT ![slot.page_num] =
                        serialize_row(row, slot.got.ptr, slot.byte_offset)],
           num_rows |-> num_rows + 1,
           requested |-> <<slot.page_num>>]

\* execute_insert: the result, the pages and the row count after it
execute_insert(row, fill, heap) ==
  IF num_rows >= TABLE_MAX_ROWS
    THEN [result |-> "EXECUTE_TABLE_FULL", pages |-> pages, num_rows |-> num_rows,
          requested |-> <<>>]
  ELSE LET slot == row_slot(pages, num_rows, fill, heap)
       IN [result |-> "EXECUTE_SUCCESS",
           pages |-> [slot.got.pages EXCEPT ![slot.page_num] =
                        serialize_row(row, slot.got.ptr, slot.byte_offset)],
           num_rows |-> num_rows + 1,
           requested |-> <<slot.page_num>>]

RECURSIVE select_loop(_, _, _, _, _, _)
\* The body of execute_select's loop with the copy made the other way: the
\* local row is written over the row's slot in the page.
select_row_writes(i, slot, out, req, fill, heap) ==
  IF slot.got.exit
    THEN [end |-> "EXIT_FAILURE", pages |-> slot.got.pages,
          output |-> out, requested |-> Append(req, slot.page_num)]
  ELSE IF ~IsPage(slot.got.ptr)
    THEN [end |-> "SIGSEGV", pages |-> slot.got.pages,
          output |-> out, requested |-> Append(req, slot.page_num)]
  ELSE select_loop(i + 1,
                   [slot.got.pages EXCEPT ![slot.page_num] =
                      serialize_row(LocalRow, slot.got.ptr, slot.byte_offset)],
                   Append(out, deserialize_row(slot.got.ptr, slot.byte_offset)),
                   Append(req, slot.page_num), fill, heap)

\* The body of execute_select's loop for row i, whose row_slot is slot, and
\* the rows after it.
select_row(i, slot, out, req, fill, heap) ==
  IF slot.got.exit
    THEN [end |-> "EXIT_FAILURE", pages |-> slot.got.pages,
          output |-> out, requested |-> Append(req, slot.page_num)]
  ELSE IF ~IsPage(slot.got.ptr)
    THEN [end |-> "SIGSEGV", pages |-> slot.got.pages,
          output |-> out, requested |-> Append(req, slot.page_num)]
  ELSE select_loop(i + 1, slot.got.pages,
                   Append(out, deserialize_row(slot.got.ptr, slot.byte_offset)),
                   Append(req, slot.page_num), fill, heap)

\* execute_select's loop from row i on.  end is "return" when the loop runs
\* to its end, "EXIT_FAILURE" when get_page exits, "SIGSEGV" when the row is
\* read through a pointer that is no buffer.
select_loop(i, pgs, out, req, fill, heap) ==
  IF i >= num_rows
    THEN [end |-> "return", pages |-> pgs, output |-> out, requested |-> req]
  ELSE select_row(i, row_slot(pgs, i, fill, heap), out, req, fill, heap)

\* execute_select
execute_select(fill, heap) ==
  IF num_rows = 0
    THEN [end |-> "return", result |-> "EXECUTE_TABLE_EMPTY", pages |-> pages,
          output |-> <<>>, requested |-> <<>>]
  ELSE LET l == select_loop(0, pages, <<>>, <<>>, fill, heap)
       IN [end |-> l.end,
           result |-> IF l.end = "return" THEN "EXECUTE_SUCCESS" ELSE "NONE",
           pages |-> l.pages, output |-> l.output, requested |-> l.requested]

\* One flush of db_close: page i, if its entry is not NULL, is flushed with
\* size bytes and its entry set to NULL.
FlushStep(c, i, size, heap) ==
  LET p == Resolve(c.pages, i, heap)
      w == pager_flush(p, c.file, i, size)
  IN IF p = NULL THEN [c EXCEPT !.pages[i] = NULL]
     ELSE IF w.exit
       THEN [c EXCEPT !.exit = TRUE, !.pages[i] = p,
                      !.flushed = Append(c.flushed, <<i, size>>)]
     ELSE [c EXCEPT !.file = w.file, !.pages[i] = NULL,
                    !.flushed = Append(c.flushed, <<i, size>>)]

RECURSIVE close_loop(_, _, _, _)
\* db_close's first loop, from page i on
close_loop(c, i, num_full_pages, heap) ==
  IF i >= num_full_pages \/ c.exit THEN c
  ELSE close_loop(FlushStep(c, i, PAGE_SIZE, heap), i + 1, num_full_pages, heap)

\* db_close that writes nothing of the last, partly filled page
LastPageFlushSize_nothing(num_additional_rows) == 0

\* The size db_close gives pager_flush for the last, partly filled page.
LastPageFlushSize(num_additional_rows) == PAGE_SIZE

\* db_close: whether it exits before close(fd), the file, the pages and the
\* flushes made
db_close(heap) ==
  LET num_full_pages == num_rows \div ROWS_PER_PAGE
      c0 == [exit |-> FALSE, file |-> file, pages |-> pages, flushed |-> <<>>]
      c1 == close_loop(c0, 0, num_full_pages, heap)
      num_additional_rows == num_rows % ROWS_PER_PAGE
  IN IF ~c1.exit /\ num_additional_rows # 0
       THEN FlushStep(c1, num_full_pages, LastPageFlushSize(num_additional_rows), heap)
     ELSE c1

(***************************************************************************)
(* The program: main, started MaxSessions times on the same file.          *)
(***************************************************************************)
Init ==
  /\ file = <<>>
  /\ status = "idle"
  /\ file_length = 0
  /\ pages = PagesAtOpen
  /\ num_rows = 0
  /\ sessions = 0
  /\ exit_kind = "none"
  /\ op = "none"
  /\ line = <<>>
  /\ prep = "NONE"
  /\ executed = FALSE
  /\ result = "NONE"
  /\ stmt_row = <<>>
  /\ requested = <<>>
  /\ output = <<>>
  /\ flushed = <<>>
  /\ cur = <<>>
  /\ committed = <<>>
  /\ batches = 0

\* What a step that executes no statement records.
NoStatement ==
  /\ executed' = FALSE
  /\ result' = "NONE"
  /\ stmt_row' = <<>>
  /\ requested' = <<>>
  /\ output' = <<>>

\* main up to its loop: db_open (pager_open, then the row count from the
\* file's length) hands the table to main.
StartSession(limit) ==
  /\ status = "idle"
  /\ sessions < limit
  /\ status' = "running"
  /\ sessions' = sessions + 1
  /\ file_length' = Len(file)
  /\ pages' = PagesAtOpen
  /\ num_rows' = Len(file) \div ROW_SIZE
  /\ exit_kind' = "none"
  /\ op' = "open"
  /\ line' = <<>>
  /\ prep' = "NONE"
  /\ flushed' = <<>>
  /\ cur' = <<>>
  /\ NoStatement
  /\ UNCHANGED <<file, committed, batches>>

\* db_open ends without a return statement: what main receives is whatever
\* the return register or slot holds.  Where that is not the table, the
\* first use of it ends the process.
DbOpenLost(limit) ==
  /\ status = "idle"
  /\ sessions < limit
  /\ sessions' = sessions + 1
  /\ exit_kind' = "SIGSEGV"
  /\ op' = "open_lost"
  /\ line' = <<>>
  /\ prep' = "NONE"
  /\ flushed' = <<>>
  /\ cur' = <<>>
  /\ NoStatement
  /\ UNCHANGED <<file, status, file_length, pages, num_rows, committed, batches>>

\* The input ends: getline reads nothing, read_input reports it and exits.
\* db_close is not called and the resident pages are lost with the process.
InputEnds ==
  /\ status = "running"
  /\ status' = "idle"
  /\ exit_kind' = "EXIT_FAILURE"
  /\ op' = "eof"
  /\ line' = <<>>
  /\ prep' = "NONE"
  /\ flushed' = <<>>
  /\ NoStatement
  /\ UNCHANGED <<file, file_length, pages, num_rows, sessions, cur, committed, batches>>

IsMeta(buffer) == buffer # <<>> /\ buffer[1] = Ord(".")

ExitLine == Str(<<".", "e", "x", "i", "t">>)

\* ".exit": do_meta_command calls db_close and exits.
MetaExit(L) ==
  /\ status = "running"
  /\ \E buffer \in L, heap \in HeapChoices(num_rows - 1) :
       /\ IsMeta(buffer)
       /\ strcmp0(buffer, ExitLine)
       /\ line' = buffer
       /\ \E c \in {db_close(heap)} :
             /\ file' = c.file
             /\ pages' = c.pages
             /\ flushed' = c.flushed
             /\ exit_kind' = IF c.exit THEN "EXIT_FAILURE" ELSE "EXIT_SUCCESS"
             /\ committed' = IF c.exit THEN committed ELSE committed \o cur
             /\ batches' = IF c.exit \/ cur = <<>> THEN batches ELSE batches + 1
  /\ status' = "idle"
  /\ op' = "exit"
  /\ prep' = "NONE"
  /\ NoStatement
  /\ UNCHANGED <<file_length, num_rows, sessions, cur>>

\* Any other line that starts with '.': reported, and the loop continues.
MetaUnrecognized(L) ==
  /\ status = "running"
  /\ \E buffer \in L :
       /\ IsMeta(buffer)
       /\ ~strcmp0(buffer, ExitLine)
       /\ line' = buffer
  /\ op' = "meta"
  /\ prep' = "NONE"
  /\ flushed' = <<>>
  /\ NoStatement
  /\ UNCHANGED <<file, status, file_length, pages, num_rows, sessions, exit_kind,
                 cur, committed, batches>>

\* A line whose PrepareResult main's switch answers with `continue`.
Rejected(L) ==
  /\ status = "running"
  /\ \E buffer \in L, rowfill \in HeapFill :
       /\ ~IsMeta(buffer)
       /\ PrepareContinues(Prepared[buffer, rowfill].result)
       /\ prep' = Prepared[buffer, rowfill].result
       /\ line' = buffer
  /\ op' = "rejected"
  /\ flushed' = <<>>
  /\ NoStatement
  /\ UNCHANGED <<file, status, file_length, pages, num_rows, sessions, exit_kind,
                 cur, committed, batches>>

\* A line that leaves main's switch with an insert statement:
\* execute_statement calls execute_insert.
Insert(L) ==
  /\ status = "running"
  /\ \E buffer \in L, rowfill \in HeapFill :
       /\ ~IsMeta(buffer)
       /\ ~PrepareContinues(Prepared[buffer, rowfill].result)
       /\ Prepared[buffer, rowfill].type = "STATEMENT_INSERT"
       /\ line' = buffer
       /\ \E fill \in HeapFill,
             heap \in HeapChoices(IF num_rows < TABLE_MAX_ROWS THEN num_rows ELSE 0) :
          \E p \in {Prepared[buffer, rowfill]} :
          \E e \in {execute_insert(p.row, fill, heap)} :
             /\ prep' = p.result
             /\ stmt_row' = p.row
             /\ result' = e.result
             /\ pages' = e.pages
             /\ num_rows' = e.num_rows
             /\ requested' = e.requested
             /\ cur' = IF e.result = "EXECUTE_SUCCESS"
                         THEN Append(cur, [idx |-> num_rows, row |-> p.row])
                       ELSE cur
  /\ executed' = TRUE
  /\ op' = "insert"
  /\ output' = <<>>
  /\ flushed' = <<>>
  /\ UNCHANGED <<file, status, file_length, sessions, exit_kind, committed, batches>>

\* "select": execute_statement calls execute_select.  The process ends
\* inside it when get_page exits or a row is read through a wild pointer.
Select(L) ==
  /\ status = "running"
  /\ \E buffer \in L, rowfill \in HeapFill :
       /\ ~IsMeta(buffer)
       /\ ~PrepareContinues(Prepared[buffer, rowfill].result)
       /\ Prepared[buffer, rowfill].type = "STATEMENT_SELECT"
       /\ line' = buffer
       /\ \E fill \in HeapFill, heap \in HeapChoices(num_rows - 1) :
          \E p \in {Prepared[buffer, rowfill]} :
          \E e \in {execute_select(fill, heap)} :
             /\ prep' = p.result
             /\ result' = e.result
             /\ pages' = e.pages
             /\ requested' = e.requested
             /\ output' = e.output
             /\ status' = IF e.end = "return" THEN "running" ELSE "idle"
             /\ exit_kind' = IF e.end = "return" THEN exit_kind ELSE e.end
  /\ executed' = TRUE
  /\ op' = "select"
  /\ stmt_row' = <<>>
  /\ flushed' = <<>>
  /\ UNCHANGED <<file, file_length, num_rows, sessions, cur, committed, batches>>

\* The program started up to MaxSessions times, with a line of CoreLines
\* typed at each prompt.
Next ==
  \/ StartSession(MaxSessions)
  \/ DbOpenLost(MaxSessions)
  \/ InputEnds
  \/ MetaExit(CoreLines)
  \/ MetaUnrecognized(CoreLines)
  \/ Rejected(CoreLines)
  \/ Insert(CoreLines)
  \/ Select(CoreLines)

Spec == Init /\ [][Next]_vars

\* The program started up to MaxRuns times, with any line of Lines typed at
\* each prompt.
NextAnyLine ==
  \/ StartSession(MaxRuns)
  \/ DbOpenLost(MaxRuns)
  \/ InputEnds
  \/ MetaExit(Lines)
  \/ MetaUnrecognized(Lines)
  \/ Rejected(Lines)
  \/ Insert(Lines)
  \/ Select(Lines)

SpecAnyLine == Init /\ [][NextAnyLine]_vars

(***************************************************************************)
(* Properties.                                                             *)
(***************************************************************************)
\* The place of row row_num: its page and its byte offset in the page
PageOf(row_num) == row_num \div ROWS_PER_PAGE

OffsetOf(row_num) == (row_num % ROWS_PER_PAGE) * ROW_SIZE

\* The rows of a history of inserts
RowsOf(h) == [i \in 1..Len(h) |-> h[i].row]

\* The history's rows were given the row numbers 0, 1, 2, ...
FromRowZero(h) == \A i \in 1..Len(h) : h[i].idx = i - 1

\* Row row_num as the table yields it now: through the resident page, or
\* through the page get_page would load, whatever malloc's memory and the
\* heap hold.
Yields(row_num, row) ==
  \A fill \in HeapFill, heap \in HeapChoices(row_num) :
    \E got \in {get_page(pages, PageOf(row_num), fill, heap)} :
      /\ ~got.exit
      /\ IsPage(got.ptr)
      /\ deserialize_row(got.ptr, OffsetOf(row_num)) = row

\* C1: Persistence.  After one session that starts from the empty file,
\* inserts N rows and closes, a new session has num_rows = N and its
\* select yields exactly those rows in order.
C1_Persistence ==
  (status = "running" /\ batches = 1 /\ cur = <<>>) =>
    /\ num_rows = Len(committed)
    /\ (op = "select" => output = RowsOf(committed))

\* C2: A line whose PrepareResult is not PREPARE_SUCCESS never reaches
\* execute_statement, and leaves num_rows and every page as they were.
C2_RejectedNeverExecuted ==
  [][(op' \in {"rejected", "insert", "select"} /\ prep' # "PREPARE_SUCCESS") =>
       (~executed' /\ num_rows' = num_rows /\ pages' = pages)]_vars

\* C3: Append order.  In a session opened on the empty file, a select after
\* n+1 successful inserts returns, and yields exactly the n+1 inserted rows
\* in the order of their insertion; num_rows is n+1.
C3_AppendOrder ==
  (op = "select" /\ file_length = 0 /\ cur # <<>>) =>
    /\ status = "running"
    /\ result = "EXECUTE_SUCCESS"
    /\ num_rows = Len(cur)
    /\ FromRowZero(cur)
    /\ output = RowsOf(cur)

\* A select over two pages, of rows that differ, in a session opened on the
\* empty file
C3_Witness ==
  /\ op = "select"
  /\ file_length = 0
  /\ Len(cur) > ROWS_PER_PAGE
  /\ Len(output) = Len(cur)
  /\ output[1] # output[2]

\* C4: Capacity.  An insert executed at num_rows >= TABLE_MAX_ROWS returns
\* EXECUTE_TABLE_FULL, requests no page and changes neither num_rows nor a
\* page; an insert executed below TABLE_MAX_ROWS returns EXECUTE_SUCCESS and
\* adds exactly one to num_rows.
C4_Capacity ==
  [][(op' = "insert" /\ executed') =>
       IF num_rows >= TABLE_MAX_ROWS
         THEN /\ result' = "EXECUTE_TABLE_FULL"
              /\ requested' = <<>>
              /\ num_rows' = num_rows
              /\ pages' = pages
       ELSE /\ result' = "EXECUTE_SUCCESS"
            /\ num_rows' = num_rows + 1]_vars

\* The insert that follows TABLE_MAX_ROWS successful inserts into the empty
\* table
C4_Witness ==
  /\ op = "insert"
  /\ result = "EXECUTE_TABLE_FULL"
  /\ file_length = 0
  /\ Len(cur) = TABLE_MAX_ROWS
  /\ num_rows = TABLE_MAX_ROWS

\* C5: Partial-page durability.  When the rows 0..N-1 were inserted from
\* the empty file on and closed, and N is no multiple of ROWS_PER_PAGE,
\* then in a session opened afterwards every i < N is a row of the table
\* and row i decodes to the i-th inserted row.
C5_PartialPageDurability ==
  (status = "running" /\ committed # <<>> /\ FromRowZero(committed)
     /\ Len(committed) % ROWS_PER_PAGE # 0) =>
    /\ Len(committed) <= num_rows
    /\ \A i \in 1..Len(committed) : Yields(i - 1, committed[i].row)

\* A session opened on a file whose second page was closed partly filled
C5_Witness ==
  /\ status = "running"
  /\ op = "open"
  /\ batches = 1
  /\ FromRowZero(committed)
  /\ Len(committed) > ROWS_PER_PAGE
  /\ Len(committed) % ROWS_PER_PAGE # 0
  /\ committed[1].row # committed[2].row

\* C6: Every get_page with a page number of TABLE_MAX_PAGES or more exits
\* with a failure, and reads or writes no entry of the page array (no word
\* after the array either).
C6_OutOfBoundsPageRequest ==
  \A k \in 1..Len(requested) :
    requested[k] >= TABLE_MAX_PAGES =>
      /\ k = Len(requested)
      /\ status = "idle"
      /\ exit_kind = "EXIT_FAILURE"
      /\ \A n \in TABLE_MAX_PAGES..MaxWord : pages[n] = Unread

\* The length of the text in a field: the bytes before its first 0, all of
\* them when it has none.
TextLen(field) ==
  IF \E i \in 1..Len(field) : field[i] = 0
    THEN (CHOOSE i \in 1..Len(field) :
            field[i] = 0 /\ \A j \in 1..(i - 1) : field[j] # 0) - 1
  ELSE Len(field)

\* An insert line whose username or email is longer than its column
TooLong(buffer) ==
  LET toks == strtok(buffer)
  IN /\ strncmp0(buffer, Str(<<"i", "n", "s", "e", "r", "t">>), 6)
     /\ Len(toks) >= 4
     /\ \/ strlen(toks[3]) > COLUMN_USERNAME_SIZE
        \/ strlen(toks[4]) > COLUMN_EMAIL_SIZE

\* C7: Width limits.  The row of every statement given to execute_insert has
\* a username of at most COLUMN_USERNAME_SIZE bytes and an email of at most
\* COLUMN_EMAIL_SIZE bytes, and an insert line with a longer username or
\* email is answered PREPARE_STRING_TOO_LONG and not executed.
C7_WidthLimits ==
  /\ (op = "insert" /\ executed) =>
       /\ TextLen(Field(stmt_row, USERNAME_OFFSET, USERNAME_SIZE)) <= COLUMN_USERNAME_SIZE
       /\ TextLen(Field(stmt_row, EMAIL_OFFSET, EMAIL_SIZE)) <= COLUMN_EMAIL_SIZE
  /\ (op \in {"rejected", "insert", "select"} /\ TooLong(line)) =>
       (prep = "PREPARE_STRING_TOO_LONG" /\ ~executed)

\* C8: db_close flushes the last page, when it holds k > 0 rows only, with
\* k * ROW_SIZE bytes, and every page before it with PAGE_SIZE bytes.
C8_PartialFlushSize ==
  op = "exit" =>
    \A k \in 1..Len(flushed) :
      flushed[k][2] =
        IF flushed[k][1] = num_rows \div ROWS_PER_PAGE /\ num_rows % ROWS_PER_PAGE > 0
          THEN (num_rows % ROWS_PER_PAGE) * ROW_SIZE
        ELSE PAGE_SIZE

\* C9: The file's length is a multiple of ROW_SIZE after every sequence of
\* sessions, so that db_open's division leaves no remainder.
C9_FileLengthMultiple ==
  /\ Len(file) % ROW_SIZE = 0
  /\ (op = "open" => num_rows * ROW_SIZE = file_length)

\* C10: A select returns EXECUTE_TABLE_EMPTY, yields no row and requests no
\* page when num_rows = 0, and returns EXECUTE_SUCCESS when num_rows > 0.
C10_EmptyTable ==
  op = "select" =>
    /\ (num_rows = 0 =>
          result = "EXECUTE_TABLE_EMPTY" /\ output = <<>> /\ requested = <<>>)
    /\ (num_rows > 0 => result = "EXECUTE_SUCCESS")

\* Rows to encode: some ids, among them the largest, and in each text field
\* every content over three byte values that has its terminating 0, with
\* any bytes after it.
CodecIds == {0, 1, 258, -1}

CodecBytes == {0, 97, 255}

CodecTexts(size) ==
  {t \in [1..size -> CodecBytes] : \E i \in 1..size : t[i] = 0}

CodecRows ==
  {U32Bytes(id) \o u \o e :
     id \in CodecIds, u \in CodecTexts(USERNAME_SIZE), e \in CodecTexts(EMAIL_SIZE)}

\* serialize_row of r into the slot at byte_offset of the page before, and
\* deserialize_row of that slot: the row comes back, its three fields lie
\* at their offsets one after the other, and no byte outside the slot's
\* ROW_SIZE bytes differs from before.
RoundTrip(r, before, byte_offset) ==
  LET after == serialize_row(r, before, byte_offset)
  IN /\ Len(after) = Len(before)
     /\ deserialize_row(after, byte_offset) = r
     /\ Field(after, byte_offset + ID_OFFSET, ID_SIZE) = Field(r, ID_OFFSET, ID_SIZE)
     /\ Field(after, byte_offset + ID_SIZE, USERNAME_SIZE)
          = Field(r, USERNAME_OFFSET, USERNAME_SIZE)
     /\ Field(after, byte_offset + ID_SIZE + USERNAME_SIZE, EMAIL_SIZE)
          = Field(r, EMAIL_OFFSET, EMAIL_SIZE)
     /\ \A j \in 1..Len(before) :
          (j <= byte_offset \/ j > byte_offset + ROW_SIZE) => after[j] = before[j]

CodecRoundTrip ==
  \A r \in CodecRows, fill \in HeapFill, k \in 0..(ROWS_PER_PAGE - 1) :
    RoundTrip(r, FreshPage[fill], k * ROW_SIZE)

\* C11: Codec round trip.  For every row whose username and email have
\* their terminating 0 within their fields, deserialize_row of what
\* serialize_row wrote is the row, serialize_row writes the id, the
\* username and the email one after the other from the slot's first byte
\* on and changes no byte outside the slot's ROW_SIZE bytes; and the slot
\* an insert has just written decodes to the statement's row.
C11_CodecRoundTrip ==
  /\ CodecRoundTrip
  /\ (op = "insert" /\ result = "EXECUTE_SUCCESS") =>
       LET h == cur[Len(cur)]
       IN /\ h.row = stmt_row
          /\ IsPage(pages[PageOf(h.idx)])
          /\ deserialize_row(pages[PageOf(h.idx)], OffsetOf(h.idx)) = stmt_row

\* An insert into a slot that is not the first of its page, of a row whose
\* texts fit their columns
C11_Witness ==
  /\ op = "insert"
  /\ result = "EXECUTE_SUCCESS"
  /\ OffsetOf(cur[Len(cur)].idx) > 0
  /\ TextLen(Field(stmt_row, USERNAME_OFFSET, USERNAME_SIZE)) <= COLUMN_USERNAME_SIZE
  /\ TextLen(Field(stmt_row, EMAIL_OFFSET, EMAIL_SIZE)) <= COLUMN_EMAIL_SIZE

\* C12: Session state machine.  An insert or select that returns
\* EXECUTE_TABLE_FULL or EXECUTE_TABLE_EMPTY leaves the loop running; the
\* only line that ends the session is ".exit", which runs db_close to its
\* end before the process exits; while no session is running no statement
\* is executed; an unrecognized meta-command leaves the session running and
\* the table and the file as they were.
C12_SessionStateMachine ==
  [][/\ (result' \in {"EXECUTE_TABLE_FULL", "EXECUTE_TABLE_EMPTY"}) => status' = "running"
     /\ (status = "running" /\ status' = "idle" /\ op' # "eof") =>
          (op' = "exit" /\ exit_kind' = "EXIT_SUCCESS")
     /\ (op' = "exit") =>
          (status' = "idle" /\ \A n \in 0..MaxWord : ~IsPage(pages'[n]))
     /\ (status = "idle") => ~executed'
     /\ (op' = "meta") =>
          (status' = "running" /\ num_rows' = num_rows /\ pages' = pages
             /\ file' = file)]_vars

\* C13: Row count never exceeds capacity.  In every state, the one that
\* follows db_open on a file an earlier session wrote included, num_rows is
\* at most TABLE_MAX_ROWS, and no insert or select passes get_page a page
\* number of TABLE_MAX_PAGES or more.
C13_RowCountWithinCapacity ==
  /\ num_rows <= TABLE_MAX_ROWS
  /\ \A k \in 1..Len(requested) : requested[k] < TABLE_MAX_PAGES

\* Every row inserted so far, in the sessions closed and in this one
Inserted == committed \o cur

\* The page of row row_num as get_page finds or loads it, for some content
\* of malloc's memory
PageBefore(row_num) ==
  {get_page(pages, PageOf(row_num), fill, [i \in TABLE_MAX_PAGES..MaxWord |-> NULL]).ptr :
     fill \in HeapFill}

\* C14: Insert never overwrites an existing row.  Over every sequence of
\* sessions from the empty file on, a successful insert changes only the
\* ROW_SIZE bytes of slot num_rows in page num_rows / ROWS_PER_PAGE: no row
\* inserted before was given that slot, no other page and no byte of the
\* file changes, the page's bytes outside the slot are what they were, and
\* every row inserted before into that page still decodes to what was
\* inserted.
C14_InsertNeverOverwrites ==
  [][(op' = "insert" /\ result' = "EXECUTE_SUCCESS") =>
       /\ \A i \in 1..Len(Inserted) : Inserted[i].idx # num_rows
       /\ file' = file
       /\ \A n \in 0..MaxWord : n # PageOf(num_rows) => pages'[n] = pages[n]
       /\ \E before \in PageBefore(num_rows) :
            \A j \in 1..PAGE_SIZE :
              (j <= OffsetOf(num_rows) \/ j > OffsetOf(num_rows) + ROW_SIZE) =>
                pages'[PageOf(num_rows)][j] = before[j]
       /\ \A i \in 1..Len(Inserted) :
            PageOf(Inserted[i].idx) = PageOf(num_rows) =>
              deserialize_row(pages'[PageOf(num_rows)], OffsetOf(Inserted[i].idx))
                = Inserted[i].row]_vars

\* An insert into a table that holds rows of an earlier session and of
\* this one
C14_Witness ==
  /\ op = "insert"
  /\ result = "EXECUTE_SUCCESS"
  /\ committed # <<>>
  /\ Len(cur) >= 2
  /\ cur[1].row # cur[2].row

\* get_page of a resident page returns that buffer and leaves every entry
\* as it is, whatever malloc's memory holds: nothing is allocated and
\* nothing is read from the file.
ResidentIsReturned ==
  \A n \in 0..(TABLE_MAX_PAGES - 1) :
    IsPage(pages[n]) =>
      \A fill \in HeapFill, heap \in HeapChoices(n * ROWS_PER_PAGE) :
        get_page(pages, n, fill, heap) =
          [exit |-> FALSE, pages |-> pages, ptr |-> pages[n]]

\* C15: Lazy load happens once per page.  While a session runs, get_page
\* of a page of the array that is resident returns the resident buffer
\* without a read of the file, a resident page stays resident, and a select
\* that returns yields every row inserted in the session as it was
\* inserted.
C15_LazyLoadOnce ==
  [][(status' = "running") =>
       /\ ResidentIsReturned'
       /\ (status = "running" /\ op' # "open") =>
            \A n \in 0..(TABLE_MAX_PAGES - 1) : IsPage(pages[n]) => IsPage(pages'[n])
       /\ (op' = "select") =>
            \A i \in 1..Len(cur') : output'[cur'[i].idx + 1] = cur'[i].row]_vars

\* A select that reads one page from the file and finds another resident,
\* written by an insert of the session
C15_Witness ==
  /\ op = "select"
  /\ status = "running"
  /\ file_length > 0
  /\ cur # <<>>
  /\ Len(requested) > ROWS_PER_PAGE
  /\ output[cur[1].idx + 1] = cur[1].row

\* Page n as a zeroed buffer with the file's bytes of that page read into
\* it: what lies past the end of the file stays 0.
ZeroedThenRead(n) ==
  LET have == ReadAt(file, n * PAGE_SIZE, PAGE_SIZE)
  IN have \o Rep(0, PAGE_SIZE - Len(have))

\* C16: Freshly loaded page content.  A page that a select makes resident
\* holds the file's bytes of that page and 0 in every byte past the end of
\* the file; a page that an insert makes resident holds the same outside
\* the slot the insert writes.
C16_FreshPageZeroed ==
  [][\A n \in 0..(TABLE_MAX_PAGES - 1) :
       (status = "running" /\ pages[n] = NULL /\ IsPage(pages'[n])) =>
         \A j \in 1..PAGE_SIZE :
           (op' = "insert" /\ j > OffsetOf(num_rows) /\ j <= OffsetOf(num_rows) + ROW_SIZE)
             \/ pages'[n][j] = ZeroedThenRead(n)[j]]_vars

\* C17: A read-only session does not change the store.  When a session in
\* which no row was inserted ends with ".exit", the file has the length and
\* the bytes it had when the session was opened, so that the next db_open
\* computes the same num_rows.
C17_ReadOnlySession ==
  [][(op' = "exit" /\ cur = <<>>) =>
       /\ file' = file
       /\ Len(file') = file_length
       /\ Len(file') \div ROW_SIZE = num_rows]_vars

\* C18: No modified page is lost at close.  While a session runs every
\* resident page has a number below ceil(num_rows / ROWS_PER_PAGE); db_close
\* calls pager_flush for resident pages only, for every one of them, and
\* leaves no page resident.
C18_NoPageLostAtClose ==
  [][/\ (status' = "running") =>
          \A n \in 0..MaxWord : IsPage(pages'[n]) => n * ROWS_PER_PAGE < num_rows'
     /\ (op' = "exit") =>
          /\ \A k \in 1..Len(flushed') : IsPage(pages[flushed'[k][1]])
          /\ \A n \in 0..MaxWord :
               IsPage(pages[n]) => \E k \in 1..Len(flushed') : flushed'[k][1] = n
          /\ \A n \in 0..MaxWord : ~IsPage(pages'[n])]_vars

\* C19: Select is read-only on the table.  A select, whatever it returns,
\* leaves num_rows and the file as they are and changes no byte of a page
\* that was resident; the entries it changes are those of pages that hold
\* a row below num_rows and were not resident, and when it returns with
\* EXECUTE_SUCCESS every page that holds such a row is resident.
C19_SelectReadOnly ==
  [][(op' = "select") =>
       /\ num_rows' = num_rows
       /\ file' = file
       /\ \A n \in 0..MaxWord :
            /\ IsPage(pages[n]) => pages'[n] = pages[n]
            /\ pages'[n] # pages[n] => (~IsPage(pages[n]) /\ n * ROWS_PER_PAGE < num_rows)
            /\ (result' = "EXECUTE_SUCCESS" /\ n * ROWS_PER_PAGE < num_rows) =>
                 IsPage(pages'[n])
       /\ (result' = "EXECUTE_TABLE_EMPTY") => pages' = pages]_vars

\* A select that returns and finds one page resident, written by an insert
\* of the session, and loads another
C19_Witness ==
  /\ op = "select"
  /\ result = "EXECUTE_SUCCESS"
  /\ file_length > 0
  /\ cur # <<>>
  /\ \E n \in 0..(TABLE_MAX_PAGES - 1) :
       /\ IsPage(pages[n])
       /\ n # PageOf(cur[1].idx)
       /\ (n + 1) * PAGE_SIZE <= file_length

====
